---- MODULE Spec2Model ----
(***************************************************************************)
(* The task service (task-api: models.py, app.py) and its command-line     *)
(* client (task-cli: api_client.py, cli.py) as state machines.             *)
(*                                                                         *)
(* A string is a sequence of tokens: a token is one blank or a run of      *)
(* non-blank characters (a version string is split down to characters).    *)
(* The empty string is << >>.                                              *)
(***************************************************************************)
EXTENDS Integers, Sequences, FiniteSets, TLC

\* Ids the store hands out before the model stops creating.
MaxTasks == 2
\* Clock readings the model lets pass.
MaxClock == 1
\* Clock readings per second: a reading on a whole second prints no fraction.
TicksPerSecond == 2

\* Requests each worker of the service serves.
MaxRequests == 2

\* Characters a version string the model compares may hold.
MaxVersionLen == 4
\* The largest digit of those version strings.
MaxDigit == 1

\* The service: the tasks table, its AUTOINCREMENT sequence, the clock, the
\* last response, and (history) every id ever handed out.
VARIABLES rows, seq, clock, resp, everIds

\* One run of the command-line client: its version, the command, where the
\* run stands, the requests sent so far, the version reply it got, the
\* reply to its data request, the outcome of the data call, what it printed
\* and its exit code.
VARIABLES cliVersion, cmd, pc, sent, gate, answer, outcome, printed, exitCode

\* A version comparison: the two versions and the result.
VARIABLES v1, v2, cmp

\* The request workers of the service: where each stands in its handler, the
\* request it is serving, its last response, how many requests it has served,
\* and the store connections that were opened and not closed.
VARIABLES wpc, wreq, wresp, served, openConns

svars == <<rows, seq, clock, resp, everIds>>
cvars == <<cliVersion, cmd, pc, sent, gate, answer, outcome, printed, exitCode>>
pvars == <<v1, v2, cmp>>
wvars == <<wpc, wreq, wresp, served, openConns>>
vars == <<svars, cvars, pvars, wvars>>

-----------------------------------------------------------------------------
(* Values carried by JSON bodies, query strings and Python variables.      *)

JAbsent == [t |-> "absent"]
PyNone == [t |-> "none"]
PyStr(s) == [t |-> "str", v |-> s]
PyInt(n) == [t |-> "int", v |-> n]

\* Python truth value: None, "" and 0 are false.
Truthy(v) ==
  CASE v.t = "str" -> Len(v.v) > 0
    [] v.t = "int" -> v.v # 0
    [] OTHER -> FALSE

IsBlank(c) == c = " "

\* str.strip(): drop leading and trailing blanks.
RECURSIVE lstrip(_)
lstrip(s) == IF s # << >> /\ IsBlank(Head(s)) THEN lstrip(Tail(s)) ELSE s

RECURSIVE rstrip(_)
rstrip(s) ==
  IF s # << >> /\ IsBlank(s[Len(s)]) THEN rstrip(SubSeq(s, 1, Len(s) - 1)) ELSE s

\* A strip that leaves the trailing blanks.
strip_LeftOnly(s) == lstrip(s)

strip(s) == rstrip(lstrip(s))

\* dict.get(key) and dict.get(key, default) on a JSON object: a key that is
\* missing gives the default, a key holding null gives None.
DictGet(data, k) == IF data[k].t = "absent" THEN PyNone ELSE data[k]
DictGetDefault(data, k, d) == IF data[k].t = "absent" THEN d ELSE data[k]

\* "not data" on the parsed body: an object without keys is false.
DictEmpty(data) == \A k \in DOMAIN data : data[k].t = "absent"

\* A timestamp cut to whole seconds.
isoformat_SecondsOnly(t) == << t \div TicksPerSecond >>

\* datetime.utcnow().isoformat(): the seconds, and the fraction unless it is 0.
isoformat(t) ==
  IF t % TicksPerSecond = 0
    THEN << t \div TicksPerSecond >>
    ELSE << t \div TicksPerSecond, t % TicksPerSecond >>

\* SQLite's text comparison of two stored timestamps: field by field, a
\* proper prefix first.
RECURSIVE TextLess(_, _)
TextLess(a, b) ==
  IF a = << >> THEN b # << >>
  ELSE IF b = << >> THEN FALSE
  ELSE IF Head(a) # Head(b) THEN Head(a) < Head(b)
  ELSE TextLess(Tail(a), Tail(b))

\* A value bound to a TEXT column: an integer is stored as its digits.
SqlText(v) == IF v.t = "int" THEN PyStr(<< ToString(v.v) >>) ELSE v

-----------------------------------------------------------------------------
(* models.py: the tasks table and the Task model.                          *)

VALID_STATUSES == { <<"pending">>, <<"in_progress">>, <<"completed">> }

InvalidStatusMsg == "Invalid status. Must be one of: pending, in_progress, completed"

\* A rowid column without AUTOINCREMENT: one more than the largest rowid the
\* table holds now.
NextRowid_MaxPlusOne(store, sq) ==
  IF DOMAIN store = {} THEN 1
  ELSE (CHOOSE i \in DOMAIN store : \A j \in DOMAIN store : j <= i) + 1

\* CREATE TABLE tasks (id INTEGER PRIMARY KEY AUTOINCREMENT, ...): the next
\* rowid is one more than the largest rowid the table ever held.
NextRowid(store, sq) == sq + 1

\* The title test without the strip.
TitleRequired_NoStrip(title) == ~Truthy(title)

\* "not title or not title.strip()"
TitleRequired(title) == ~Truthy(title) \/ strip(title.v) = << >>

\* SELECT * FROM tasks WHERE id = ?
get_by_id(store, task_id) ==
  IF task_id \in DOMAIN store THEN store[task_id] ELSE PyNone

\* Task.create: the result (a task, or the exception raised) and the store after.
Task_create(store, sq, now, title, description) ==
  IF TitleRequired(title)
    THEN [exc |-> "ValueError", msg |-> "Title is required",
          rows |-> store, seq |-> sq, task |-> PyNone]
    ELSE LET task_id == NextRowid(store, sq)
             row == [id |-> task_id,
                     title |-> strip(title.v),
                     description |-> SqlText(description),
                     status |-> <<"pending">>,
                     created_at |-> isoformat(now),
                     updated_at |-> isoformat(now)]
             after == (task_id :> row) @@ store
         IN [exc |-> "none", msg |-> "",
             rows |-> after, seq |-> task_id,
             task |-> get_by_id(after, task_id)]

\* The rows in rowid order, as a table scan yields them.
RECURSIVE ScanRows(_, _)
ScanRows(store, from) ==
  IF \A i \in DOMAIN store : i < from THEN << >>
  ELSE IF from \in DOMAIN store
    THEN << store[from] >> \o ScanRows(store, from + 1)
    ELSE ScanRows(store, from + 1)

\* ORDER BY created_at DESC: the sorter puts a row behind every row whose
\* created_at is not smaller (rows of equal created_at keep the scan order).
RECURSIVE InsertDesc_Ascending(_, _)
InsertDesc_Ascending(sorted, row) ==
  IF sorted = << >> THEN << row >>
  ELSE IF TextLess(row.created_at, Head(sorted).created_at)
    THEN << row >> \o sorted
    ELSE << Head(sorted) >> \o InsertDesc_Ascending(Tail(sorted), row)

RECURSIVE InsertDesc(_, _)
InsertDesc(sorted, row) ==
  IF sorted = << >> THEN << row >>
  ELSE IF TextLess(Head(sorted).created_at, row.created_at)
    THEN << row >> \o sorted
    ELSE << Head(sorted) >> \o InsertDesc(Tail(sorted), row)

RECURSIVE OrderByCreatedDesc(_)
OrderByCreatedDesc(rs) ==
  IF rs = << >> THEN << >>
  ELSE InsertDesc(OrderByCreatedDesc(SubSeq(rs, 1, Len(rs) - 1)), rs[Len(rs)])

\* WHERE status = ?
WhereStatus(rs, s) == SelectSeq(rs, LAMBDA r : r.status = s)

\* "status not in self.VALID_STATUSES"
NotValidStatus(status) == ~(status.t = "str" /\ status.v \in VALID_STATUSES)

\* Task.get_all
get_all(store, status) ==
  IF Truthy(status)
    THEN IF NotValidStatus(status)
           THEN [exc |-> "ValueError", msg |-> InvalidStatusMsg, tasks |-> << >>]
           ELSE [exc |-> "none", msg |-> "",
                 tasks |-> OrderByCreatedDesc(WhereStatus(ScanRows(store, 1), status.v))]
    ELSE [exc |-> "none", msg |-> "", tasks |-> OrderByCreatedDesc(ScanRows(store, 1))]

\* An UPDATE that writes the description column whether or not a description
\* was given.
Task_update_WritesDescription(store, now, task_id, title, description, status) ==
  IF get_by_id(store, task_id) = PyNone
    THEN [exc |-> "none", msg |-> "", rows |-> store, task |-> PyNone]
  ELSE IF Truthy(status) /\ NotValidStatus(status)
    THEN [exc |-> "ValueError", msg |-> InvalidStatusMsg, rows |-> store, task |-> PyNone]
  ELSE IF title # PyNone /\ strip(title.v) = << >>
    THEN [exc |-> "ValueError", msg |-> "Title cannot be empty",
          rows |-> store, task |-> PyNone]
  ELSE LET old == store[task_id]
           row == [old EXCEPT
                     !.title = IF title # PyNone THEN strip(title.v) ELSE @,
                     !.description = SqlText(description),
                     !.status = IF status # PyNone THEN SqlText(status).v ELSE @,
                     !.updated_at = isoformat(now)]
           after == [store EXCEPT ![task_id] = row]
       IN [exc |-> "none", msg |-> "", rows |-> after,
           task |-> get_by_id(after, task_id)]

\* Task.update: None when the id is unknown; ValueError on a bad status or a
\* blank title, raised before the UPDATE statement runs.
Task_update(store, now, task_id, title, description, status) ==
  IF get_by_id(store, task_id) = PyNone
    THEN [exc |-> "none", msg |-> "", rows |-> store, task |-> PyNone]
  ELSE IF Truthy(status) /\ NotValidStatus(status)
    THEN [exc |-> "ValueError", msg |-> InvalidStatusMsg, rows |-> store, task |-> PyNone]
  ELSE IF title # PyNone /\ strip(title.v) = << >>
    THEN [exc |-> "ValueError", msg |-> "Title cannot be empty",
          rows |-> store, task |-> PyNone]
  ELSE LET old == store[task_id]
           row == [old EXCEPT
                     !.title = IF title # PyNone THEN strip(title.v) ELSE @,
                     !.description = IF description # PyNone
                                       THEN SqlText(description) ELSE @,
                     !.status = IF status # PyNone THEN SqlText(status).v ELSE @,
                     !.updated_at = isoformat(now)]
           after == [store EXCEPT ![task_id] = row]
       IN [exc |-> "none", msg |-> "", rows |-> after,
           task |-> get_by_id(after, task_id)]

\* Task.delete
Task_delete(store, task_id) ==
  IF get_by_id(store, task_id) = PyNone
    THEN [ok |-> FALSE, rows |-> store]
    ELSE [ok |-> TRUE,
          rows |-> [i \in DOMAIN store \ {task_id} |-> store[i]]]

\* SUM(CASE WHEN status = s THEN 1 ELSE 0 END): NULL over no rows.
SqlSumStatus(store, s) ==
  IF DOMAIN store = {}
    THEN PyNone
    ELSE PyInt(Cardinality({i \in DOMAIN store : store[i].status = s}))

\* Task.get_stats
Task_get_stats(store) ==
  [total |-> PyInt(Cardinality(DOMAIN store)),
   pending |-> SqlSumStatus(store, <<"pending">>),
   in_progress |-> SqlSumStatus(store, <<"in_progress">>),
   completed |-> SqlSumStatus(store, <<"completed">>)]

-----------------------------------------------------------------------------
(* app.py: the request handlers. Each gives the response and the store     *)
(* after the request.                                                      *)

Reply(code, body, store, sq) ==
  [code |-> code, body |-> body, rows |-> store, seq |-> sq]

ErrorBody(msg) == [success |-> FALSE, error |-> msg]

\* task-api/version.py
API_VERSION == << "1", ".", "0", ".", "0" >>

get_version_info ==
  [version |-> PyStr(API_VERSION),
   api_version |-> PyStr(<< "v", "1" >>),
   min_cli_version |-> PyStr(<< "1", ".", "0", ".", "0" >>)]

\* GET /health
health_check(store, sq) ==
  Reply(200, [status |-> "healthy", version |-> PyStr(API_VERSION)], store, sq)

\* GET /api/v1/version
version_endpoint(store, sq) == Reply(200, get_version_info, store, sq)

\* A path no route matches: the 404 error handler.
not_found(store, sq) == Reply(404, ErrorBody("Endpoint not found"), store, sq)

\* GET /api/v1/tasks?status=
get_tasks(store, sq, status) ==
  LET r == get_all(store, status)
  IN IF r.exc = "ValueError"
       THEN Reply(400, ErrorBody(r.msg), store, sq)
       ELSE Reply(200, [success |-> TRUE, count |-> Len(r.tasks), tasks |-> r.tasks],
                  store, sq)

\* GET /api/v1/tasks/<id>
get_task(store, sq, task_id) ==
  LET task == get_by_id(store, task_id)
  IN IF task = PyNone
       THEN Reply(404, ErrorBody("Task not found"), store, sq)
       ELSE Reply(200, [success |-> TRUE, task |-> task], store, sq)

\* POST /api/v1/tasks
create_task(store, sq, now, data) ==
  IF DictEmpty(data)
    THEN Reply(400, ErrorBody("Request body is required"), store, sq)
  ELSE IF ~Truthy(DictGet(data, "title"))
    THEN Reply(400, ErrorBody("Title is required"), store, sq)
  ELSE LET r == Task_create(store, sq, now, DictGet(data, "title"),
                            DictGetDefault(data, "description", PyStr(<< >>)))
       IN IF r.exc = "ValueError"
            THEN Reply(400, ErrorBody(r.msg), r.rows, r.seq)
            ELSE Reply(201, [success |-> TRUE, task |-> r.task], r.rows, r.seq)

\* PUT /api/v1/tasks/<id>
update_task(store, sq, now, task_id, data) ==
  IF DictEmpty(data)
    THEN Reply(400, ErrorBody("Request body is required"), store, sq)
  ELSE LET r == Task_update(store, now, task_id, DictGet(data, "title"),
                            DictGet(data, "description"), DictGet(data, "status"))
       IN IF r.exc = "ValueError"
            THEN Reply(400, ErrorBody(r.msg), r.rows, sq)
          ELSE IF r.task = PyNone
            THEN Reply(404, ErrorBody("Task not found"), r.rows, sq)
            ELSE Reply(200, [success |-> TRUE, task |-> r.task], r.rows, sq)

\* DELETE /api/v1/tasks/<id>
delete_task(store, sq, task_id) ==
  LET r == Task_delete(store, task_id)
  IN IF ~r.ok
       THEN Reply(404, ErrorBody("Task not found"), r.rows, sq)
       ELSE Reply(200, [success |-> TRUE, message |-> "Task deleted successfully"],
                  r.rows, sq)

\* GET /api/v1/stats
get_stats(store, sq) ==
  Reply(200, [success |-> TRUE, stats |-> Task_get_stats(store)], store, sq)

-----------------------------------------------------------------------------
(* task-cli: version.py and api_client.py.                                 *)

Digits == << "0", "1", "2", "3", "4", "5", "6", "7", "8", "9" >>

IsDigit(c) == \E d \in 1 .. 10 : Digits[d] = c

DigitValue(c) == (CHOOSE d \in 1 .. 10 : Digits[d] = c) - 1

\* str.split('.'): the pieces between the dots, empty pieces included.
RECURSIVE split(_)
split(s) ==
  IF \A i \in 1 .. Len(s) : s[i] # "."
    THEN << s >>
    ELSE LET d == CHOOSE i \in 1 .. Len(s) :
                    s[i] = "." /\ \A j \in 1 .. i - 1 : s[j] # "."
         IN << SubSeq(s, 1, d - 1) >> \o split(SubSeq(s, d + 1, Len(s)))

\* int(x) succeeds on a non-empty run of digits (signs, blanks and
\* underscores are not among the characters the model writes).
IntParses(x) == x # << >> /\ \A i \in 1 .. Len(x) : IsDigit(x[i])

RECURSIVE int(_)
int(x) ==
  IF x = << >> THEN 0
  ELSE 10 * int(SubSeq(x, 1, Len(x) - 1)) + DigitValue(x[Len(x)])

\* [int(x) for x in v.split('.')]
IntParts(v) == [i \in 1 .. Len(split(v)) |-> int(split(v)[i])]

PartsParse(v) == \A i \in 1 .. Len(split(v)) : IntParses(split(v)[i])

\* range(min(len(v1_parts), len(v2_parts))): the loop without the padding.
LoopLength_Min(p1, p2) == IF Len(p1) <= Len(p2) THEN Len(p1) ELSE Len(p2)

\* range(max(len(v1_parts), len(v2_parts)))
LoopLength(p1, p2) == IF Len(p1) >= Len(p2) THEN Len(p1) ELSE Len(p2)

\* parts[i] if i < len(parts) else 0
PartAt(parts, i) == IF i <= Len(parts) THEN parts[i] ELSE 0

RECURSIVE CompareFrom(_, _, _)
CompareFrom(p1, p2, i) ==
  IF i > LoopLength(p1, p2) THEN 0
  ELSE IF PartAt(p1, i) < PartAt(p2, i) THEN -1
  ELSE IF PartAt(p1, i) > PartAt(p2, i) THEN 1
  ELSE CompareFrom(p1, p2, i + 1)

\* APIClient._compare_versions: -1, 0 or 1, or the ValueError of int().
compare_versions(a, b) ==
  IF ~PartsParse(a) \/ ~PartsParse(b)
    THEN [exc |-> "ValueError", v |-> 0]
    ELSE [exc |-> "none", v |-> CompareFrom(IntParts(a), IntParts(b), 1)]

\* version.py
CLI_VERSION == << "1", ".", "0", ".", "0" >>
MIN_API_VERSION == << "1", ".", "0", ".", "0" >>
MAX_API_VERSION == << "2", ".", "0", ".", "0" >>

Unknown == << "u", "n", "k", "n", "o", "w", "n" >>

Zero == << "0", ".", "0", ".", "0" >>

\* The comparisons without the one against MIN_API_VERSION.
version_gate_NoApiFloor(version, json) ==
  LET min_cli_version == DictGetDefault(json, "min_cli_version", PyStr(Zero)).v
      c1 == compare_versions(version, min_cli_version)
  IN IF c1.exc # "none" THEN [exit |-> TRUE, why |-> "failed"]
     ELSE IF c1.v < 0 THEN [exit |-> TRUE, why |-> "cli_too_old"]
     ELSE [exit |-> FALSE, why |-> "ok"]

\* The two comparisons of _check_version_compatibility on the descriptor the
\* service sent; a ValueError of int() ends in "except Exception".
version_gate(version, json) ==
  LET api_version == DictGetDefault(json, "version", PyStr(Unknown)).v
      min_cli_version == DictGetDefault(json, "min_cli_version", PyStr(Zero)).v
      c1 == compare_versions(version, min_cli_version)
      c2 == compare_versions(api_version, MIN_API_VERSION)
  IN IF c1.exc # "none" THEN [exit |-> TRUE, why |-> "failed"]
     ELSE IF c1.v < 0 THEN [exit |-> TRUE, why |-> "cli_too_old"]
     ELSE IF c2.exc # "none" THEN [exit |-> TRUE, why |-> "failed"]
     ELSE IF c2.v < 0 THEN [exit |-> TRUE, why |-> "api_too_old"]
     ELSE [exit |-> FALSE, why |-> "ok"]

\* The check that lets a failed request pass.
check_version_compatibility_NetworkIgnored(version, reply) ==
  IF reply.kind # "http" \/ reply.code >= 400
    THEN [exit |-> FALSE, why |-> "ok"]
    ELSE version_gate(version, reply.json)

\* APIClient._check_version_compatibility on the reply to GET /api/v1/version:
\* whether the process exits (sys.exit(1)) and on which branch.
check_version_compatibility(version, reply) ==
  IF reply.kind = "ConnectionError" THEN [exit |-> TRUE, why |-> "connect"]
  ELSE IF reply.kind = "Timeout" THEN [exit |-> TRUE, why |-> "timeout"]
  ELSE IF reply.code >= 400 THEN [exit |-> TRUE, why |-> "failed"]
  ELSE version_gate(version, reply.json)

\* APIClient._handle_response: the body, or the exception raised.
handle_response(code) ==
  IF code < 400 THEN [exc |-> "none", msg |-> "ok"]
  ELSE IF code = 404 THEN [exc |-> "ValueError", msg |-> "Resource not found"]
  ELSE IF code = 400 THEN [exc |-> "ValueError", msg |-> "service error message"]
  ELSE [exc |-> "Exception", msg |-> "API error"]

-----------------------------------------------------------------------------
(* cli.py: one run of a command.                                           *)

Commands == {"add", "list", "show", "complete", "update", "delete", "stats"}

\* What the update command got as --title/--description/--status: nothing,
\* only empty strings, or at least one non-empty value.
UpdateFields == {"none", "empty", "given"}

Invocations ==
  { [name |-> n, fields |-> "given"] : n \in Commands }
    \cup { [name |-> "update", fields |-> f] : f \in UpdateFields }

\* An update command without the test of its options.
NoFieldGiven_Never(c) == FALSE

\* "if not any([title, description, status])"
NoFieldGiven(c) == c.name = "update" /\ c.fields # "given"

\* The except clauses of a command around get_client() and the client call.
CommandResult(c, h) ==
  IF h.exc = "none" THEN [printed |-> "success", code |-> 0]
  ELSE IF h.exc = "ValueError" /\ c.name \in {"show", "complete", "update", "delete"}
    THEN [printed |-> "not found", code |-> 1]
    ELSE [printed |-> "failed", code |-> 1]

\* The versions the client is built with, and those a service may report.
ClientVersions ==
  { CLI_VERSION, << "0", ".", "9", ".", "0" >>, << "1", ".", "1" >> }

ApiVersionValues ==
  { JAbsent, PyStr(<< "1", ".", "0", ".", "0" >>), PyStr(<< "0", ".", "9", ".", "0" >>),
    PyStr(<< "1", ".", "1", "0" >>), PyStr(<< "2", ".", "0", ".", "0" >>),
    PyStr(<< "1", ".", "0" >>), PyStr(<< "1", ".", "x" >>) }

MinCliValues ==
  { JAbsent, PyStr(<< "1", ".", "0", ".", "0" >>), PyStr(<< "0", ".", "9", ".", "0" >>),
    PyStr(<< "1", ".", "0", ".", "1" >>), PyStr(<< "1", ".", "1", "0" >>),
    PyStr(<< "1" >>), PyStr(<< "x" >>) }

NoJson == [version |-> JAbsent, min_cli_version |-> JAbsent]

\* What comes back for GET /api/v1/version.
VersionReplies ==
  { [kind |-> k, code |-> 0, json |-> NoJson] : k \in {"ConnectionError", "Timeout"} }
    \cup { [kind |-> "http", code |-> c, json |-> NoJson] : c \in {404, 500} }
    \cup { [kind |-> "http", code |-> 200,
            json |-> [version |-> a, min_cli_version |-> m]] :
             a \in ApiVersionValues, m \in MinCliValues }

\* What comes back for the data request: a status code, or no response.
DataReplies ==
  { [kind |-> "http", code |-> c] : c \in {200, 201, 400, 404, 500} }
    \cup { [kind |-> "ConnectionError", code |-> 0] }

NoReply == [kind |-> "none", code |-> 0, json |-> NoJson]

NoAnswer == [kind |-> "none", code |-> 0]

ClientIdle ==
  /\ cliVersion = CLI_VERSION
  /\ cmd = [name |-> "none", fields |-> "none"]
  /\ pc = "start"
  /\ sent = << >>
  /\ gate = NoReply
  /\ answer = NoAnswer
  /\ outcome = "none"
  /\ printed = "none"
  /\ exitCode = -1

InitClient ==
  /\ cliVersion \in ClientVersions
  /\ cmd = [name |-> "none", fields |-> "none"]
  /\ pc = "start"
  /\ sent = << >>
  /\ gate = NoReply
  /\ answer = NoAnswer
  /\ outcome = "none"
  /\ printed = "none"
  /\ exitCode = -1

\* The command starts: update without a field exits at once; every other
\* command builds the client, whose constructor asks for the version.
Invoke ==
  \E c \in Invocations :
    /\ pc = "start"
    /\ cmd' = c
    /\ IF NoFieldGiven(c)
         THEN /\ printed' = "at least one field"
              /\ exitCode' = 1
              /\ pc' = "exited"
              /\ UNCHANGED sent
         ELSE /\ sent' = Append(sent, "version")
              /\ pc' = "version"
              /\ UNCHANGED <<printed, exitCode>>
    /\ UNCHANGED <<cliVersion, gate, answer, outcome, svars, pvars, wvars>>

\* The version reply arrives: the gate exits the process, or the constructor
\* returns and the command sends its one data request.
VersionReply ==
  \E reply \in VersionReplies :
    LET r == check_version_compatibility(cliVersion, reply)
    IN /\ pc = "version"
       /\ gate' = reply
       /\ IF r.exit
            THEN /\ printed' = r.why
                 /\ exitCode' = 1
                 /\ pc' = "exited"
                 /\ UNCHANGED sent
            ELSE /\ sent' = Append(sent, cmd.name)
                 /\ pc' = "data"
                 /\ UNCHANGED <<printed, exitCode>>
       /\ UNCHANGED <<cliVersion, cmd, answer, outcome, svars, pvars, wvars>>

\* The data reply arrives: the client maps it and the command reports it.
DataReply ==
  \E reply \in DataReplies :
    LET h == IF reply.kind = "http"
               THEN handle_response(reply.code)
               ELSE [exc |-> "Exception", msg |-> "connection"]
        r == CommandResult(cmd, h)
    IN /\ pc = "data"
       /\ answer' = reply
       /\ outcome' = h
       /\ printed' = r.printed
       /\ exitCode' = r.code
       /\ pc' = "exited"
       /\ UNCHANGED <<cliVersion, cmd, sent, gate, svars, pvars, wvars>>

NextCli == Invoke \/ VersionReply \/ DataReply

-----------------------------------------------------------------------------
(* A comparison of two versions.                                           *)

VersionChars == { Digits[d] : d \in 1 .. MaxDigit + 1 } \cup {"."}

\* The well-formed versions of at most MaxVersionLen characters.
VersionStrings ==
  { s \in UNION { [1 .. n -> VersionChars] : n \in 1 .. MaxVersionLen } :
      PartsParse(s) }

NoCompare == [exc |-> "pending", v |-> 0]

CompareIdle ==
  /\ v1 = CLI_VERSION
  /\ v2 = MIN_API_VERSION
  /\ cmp = NoCompare

InitCompare ==
  /\ v1 \in VersionStrings
  /\ v2 \in VersionStrings
  /\ cmp = NoCompare

Compare ==
  /\ cmp = NoCompare
  /\ cmp' = compare_versions(v1, v2)
  /\ UNCHANGED <<v1, v2, svars, cvars, wvars>>

NextCompare == Compare

-----------------------------------------------------------------------------
(* The requests the model sends.                                           *)

\* The ids requests name: each is unknown until created and again once deleted.
Ids == 1 .. MaxTasks

TitleValues ==
  { JAbsent, PyStr(<< >>), PyStr(<<" ">>), PyStr(<<" ", "a", " ">>) }

DescriptionValues == { JAbsent, PyNone, PyStr(<<"d">>) }

StatusValues ==
  { JAbsent, PyStr(<<"pending">>), PyStr(<<"in_progress">>), PyStr(<<"completed">>),
    PyStr(<<"bogus">>), PyStr(<< >>), PyInt(0) }

\* The status query parameter: missing, or a string.
StatusArgs ==
  { PyNone, PyStr(<< >>), PyStr(<<"pending">>), PyStr(<<"in_progress">>),
    PyStr(<<"completed">>), PyStr(<<"bogus">>) }

CreateBodies ==
  { [title |-> t, description |-> d] : t \in TitleValues, d \in DescriptionValues }

UpdateBodies ==
  { [title |-> t, description |-> d, status |-> s] :
      t \in TitleValues, d \in DescriptionValues, s \in StatusValues }

-----------------------------------------------------------------------------
(* The service as a state machine: one action per request.                 *)

NoResp == [op |-> "none", code |-> 0, body |-> [success |-> TRUE]]

InitService ==
  /\ rows = << >>
  /\ seq = 0
  /\ clock = 0
  /\ resp = NoResp
  /\ everIds = {}

\* The response as the client receives it.
Response(op, r) == [op |-> op, code |-> r.code, body |-> r.body]

\* The store after the request; everIds records every id ever handed out.
Commit(r) ==
  /\ rows' = r.rows
  /\ seq' = r.seq
  /\ everIds' = everIds \cup (DOMAIN r.rows \ DOMAIN rows)

\* Time passes between requests.
Tick ==
  /\ clock < MaxClock
  /\ clock' = clock + 1
  /\ UNCHANGED <<rows, seq, resp, everIds, cvars, pvars, wvars>>

GET_tasks ==
  \E status \in StatusArgs :
    LET r == get_tasks(rows, seq, status)
    IN /\ resp' = Response("list", r)
       /\ Commit(r)
       /\ UNCHANGED <<clock, cvars, pvars, wvars>>

GET_task ==
  \E id \in Ids :
    LET r == get_task(rows, seq, id)
    IN /\ resp' = Response("get", r)
       /\ Commit(r)
       /\ UNCHANGED <<clock, cvars, pvars, wvars>>

POST_tasks ==
  \E data \in CreateBodies :
    LET r == create_task(rows, seq, clock, data)
    IN /\ r.seq <= MaxTasks
       /\ resp' = Response("create", r)
       /\ Commit(r)
       /\ UNCHANGED <<clock, cvars, pvars, wvars>>

PUT_task ==
  \E id \in Ids, data \in UpdateBodies :
    LET r == update_task(rows, seq, clock, id, data)
    IN /\ resp' = Response("update", r)
       /\ Commit(r)
       /\ UNCHANGED <<clock, cvars, pvars, wvars>>

DELETE_task ==
  \E id \in Ids :
    LET r == delete_task(rows, seq, id)
    IN /\ resp' = Response("delete", r)
       /\ Commit(r)
       /\ UNCHANGED <<clock, cvars, pvars, wvars>>

GET_stats ==
  LET r == get_stats(rows, seq)
  IN /\ resp' = Response("stats", r)
     /\ Commit(r)
     /\ UNCHANGED <<clock, cvars, pvars, wvars>>

GET_health ==
  LET r == health_check(rows, seq)
  IN /\ resp' = Response("health", r)
     /\ Commit(r)
     /\ UNCHANGED <<clock, cvars, pvars, wvars>>

GET_version ==
  LET r == version_endpoint(rows, seq)
  IN /\ resp' = Response("version", r)
     /\ Commit(r)
     /\ UNCHANGED <<clock, cvars, pvars, wvars>>

GET_unknown ==
  LET r == not_found(rows, seq)
  IN /\ resp' = Response("unknown", r)
     /\ Commit(r)
     /\ UNCHANGED <<clock, cvars, pvars, wvars>>

Next ==
  \/ Tick
  \/ GET_tasks \/ GET_task \/ POST_tasks \/ PUT_task \/ DELETE_task \/ GET_stats
  \/ GET_health \/ GET_version \/ GET_unknown

-----------------------------------------------------------------------------
(* The service under concurrent requests. Flask serves each request on a   *)
(* thread of its own; a handler advances by one store interaction at a     *)
(* time (one connection: its statement, its commit, its close), and the    *)
(* interactions of different requests interleave.                          *)

Workers == {"w1", "w2"}

\* The requests the workers serve.
StepCreateBodies ==
  { [title |-> t, description |-> JAbsent] :
      t \in { PyStr(<<" ", "a", " ">>), PyStr(<<" ">>) } }

NoFields == [title |-> JAbsent, description |-> JAbsent, status |-> JAbsent]

StepUpdateBodies ==
  { NoFields,
    [NoFields EXCEPT !.status = PyStr(<<"completed">>)],
    [NoFields EXCEPT !.status = PyStr(<<"bogus">>)],
    [NoFields EXCEPT !.title = PyStr(<<" ">>)] }

StepStatusArgs == { PyNone, PyStr(<<"bogus">>) }

NoRequest == [op |-> "none", id |-> 0, data |-> NoFields, wrote |-> FALSE]

NoWorkerResp == [op |-> "none", id |-> 0, code |-> 0, wrote |-> FALSE]

WorkersIdle ==
  /\ wpc = [w \in Workers |-> "idle"]
  /\ wreq = [w \in Workers |-> NoRequest]
  /\ wresp = [w \in Workers |-> NoWorkerResp]
  /\ served = [w \in Workers |-> 0]
  /\ openConns = 0

\* A worker takes the next request.
Accept(w) == wpc[w] = "idle" /\ served[w] < MaxRequests

\* The handler goes on to its next store interaction.
Goto(w, label, request) ==
  /\ wpc' = [wpc EXCEPT ![w] = label]
  /\ wreq' = [wreq EXCEPT ![w] = request]
  /\ UNCHANGED <<wresp, served, openConns>>

\* The handler returns its response: wrote tells whether a statement of this
\* request changed a row, leaked how many connections the request opened and
\* did not close.
Finish(w, op, id, code, wrote, leaked) ==
  /\ wpc' = [wpc EXCEPT ![w] = "idle"]
  /\ wreq' = [wreq EXCEPT ![w] = NoRequest]
  /\ wresp' = [wresp EXCEPT ![w] = [op |-> op, id |-> id, code |-> code, wrote |-> wrote]]
  /\ served' = [served EXCEPT ![w] = @ + 1]
  /\ openConns' = openConns + leaked

\* GET /api/v1/tasks: get_all opens its connection before it validates the
\* status and raises without closing it.
ListStep(w) ==
  \E status \in StepStatusArgs :
    LET r == get_tasks(rows, seq, status)
    IN /\ Accept(w)
       /\ Finish(w, "list", 0, r.code, FALSE,
                 IF get_all(rows, status).exc = "ValueError" THEN 1 ELSE 0)
       /\ UNCHANGED <<svars, cvars, pvars>>

\* GET /api/v1/tasks/<id>
GetStep(w) ==
  \E id \in Ids :
    /\ Accept(w)
    /\ Finish(w, "get", id, get_task(rows, seq, id).code, FALSE, 0)
    /\ UNCHANGED <<svars, cvars, pvars>>

\* GET /api/v1/stats
StatsStep(w) ==
  /\ Accept(w)
  /\ Finish(w, "stats", 0, get_stats(rows, seq).code, FALSE, 0)
  /\ UNCHANGED <<svars, cvars, pvars>>

\* POST /api/v1/tasks up to Task.create's commit: the request is refused, or
\* its row is inserted and committed.
CreateInsert(w) ==
  \E data \in StepCreateBodies :
    LET r == create_task(rows, seq, clock, data)
    IN /\ Accept(w)
       /\ IF r.code = 400
            THEN /\ Finish(w, "create", 0, 400, FALSE, 0)
                 /\ UNCHANGED <<rows, seq, everIds>>
            ELSE /\ rows' = r.rows
                 /\ seq' = r.seq
                 /\ everIds' = everIds \cup {r.seq}
                 /\ Goto(w, "create_read",
                         [op |-> "create", id |-> r.seq, data |-> data, wrote |-> TRUE])
       /\ UNCHANGED <<clock, resp, cvars, pvars>>

\* Task.create's "return self.get_by_id(task_id)" on a second connection,
\* then create_task's task['id']: a TypeError when the row is gone, answered
\* 500 by "except Exception".
CreateRead(w) ==
  /\ wpc[w] = "create_read"
  /\ Finish(w, "create", wreq[w].id,
            IF get_by_id(rows, wreq[w].id) = PyNone THEN 500 ELSE 201,
            wreq[w].wrote, 0)
  /\ UNCHANGED <<svars, cvars, pvars>>

\* PUT /api/v1/tasks/<id> up to Task.update's first get_by_id.
UpdateRead(w) ==
  \E id \in Ids, data \in StepUpdateBodies :
    /\ Accept(w)
    /\ IF DictEmpty(data)
         THEN Finish(w, "update", id, 400, FALSE, 0)
       ELSE IF get_by_id(rows, id) = PyNone
         THEN Finish(w, "update", id, 404, FALSE, 0)
         ELSE Goto(w, "update_write",
                   [op |-> "update", id |-> id, data |-> data, wrote |-> FALSE])
    /\ UNCHANGED <<svars, cvars, pvars>>

\* Task.update from the status check to the commit: a bad status raises
\* before the connection is opened, a blank title after it (the connection
\* stays open); the UPDATE changes the row if it is still there.
UpdateWrite(w) ==
  LET id == wreq[w].id
      title == DictGet(wreq[w].data, "title")
      description == DictGet(wreq[w].data, "description")
      status == DictGet(wreq[w].data, "status")
  IN /\ wpc[w] = "update_write"
     /\ IF Truthy(status) /\ NotValidStatus(status)
          THEN Finish(w, "update", id, 400, FALSE, 0) /\ UNCHANGED rows
        ELSE IF title # PyNone /\ strip(title.v) = << >>
          THEN Finish(w, "update", id, 400, FALSE, 1) /\ UNCHANGED rows
          ELSE /\ rows' = Task_update(rows, clock, id, title, description, status).rows
               /\ Goto(w, "update_read", [wreq[w] EXCEPT !.wrote = id \in DOMAIN rows])
     /\ UNCHANGED <<seq, clock, resp, everIds, cvars, pvars>>

\* Task.update's "return self.get_by_id(task_id)": None is answered 404.
UpdateReadBack(w) ==
  /\ wpc[w] = "update_read"
  /\ Finish(w, "update", wreq[w].id,
            IF get_by_id(rows, wreq[w].id) = PyNone THEN 404 ELSE 200,
            wreq[w].wrote, 0)
  /\ UNCHANGED <<svars, cvars, pvars>>

\* DELETE /api/v1/tasks/<id> up to Task.delete's get_by_id.
DeleteRead(w) ==
  \E id \in Ids :
    /\ Accept(w)
    /\ IF get_by_id(rows, id) = PyNone
         THEN Finish(w, "delete", id, 404, FALSE, 0)
         ELSE Goto(w, "delete_write",
                   [op |-> "delete", id |-> id, data |-> NoFields, wrote |-> FALSE])
    /\ UNCHANGED <<svars, cvars, pvars>>

\* Task.delete's DELETE and commit, then "return True": answered 200 whether
\* or not the statement found the row.
DeleteWrite(w) ==
  /\ wpc[w] = "delete_write"
  /\ rows' = Task_delete(rows, wreq[w].id).rows
  /\ Finish(w, "delete", wreq[w].id, 200, wreq[w].id \in DOMAIN rows, 0)
  /\ UNCHANGED <<seq, clock, resp, everIds, cvars, pvars>>

\* The garbage collector finalizes a connection that was left open.
Collect ==
  /\ openConns > 0
  /\ openConns' = openConns - 1
  /\ UNCHANGED <<wpc, wreq, wresp, served, svars, cvars, pvars>>

NextSteps ==
  \/ Collect
  \/ \E w \in Workers :
       \/ ListStep(w) \/ GetStep(w) \/ StatsStep(w)
       \/ CreateInsert(w) \/ CreateRead(w)
       \/ UpdateRead(w) \/ UpdateWrite(w) \/ UpdateReadBack(w)
       \/ DeleteRead(w) \/ DeleteWrite(w)

\* The service under any sequence of requests.
Init == InitService /\ ClientIdle /\ CompareIdle /\ WorkersIdle

Spec == Init /\ [][Next]_vars

\* One run of the client against any service.
InitCli == InitService /\ InitClient /\ CompareIdle /\ WorkersIdle

SpecCli == InitCli /\ [][NextCli]_vars

\* One comparison of any two versions.
InitCmp == InitService /\ ClientIdle /\ InitCompare /\ WorkersIdle

SpecCompare == InitCmp /\ [][NextCompare]_vars

\* The service under concurrent requests.
SpecSteps == Init /\ [][NextSteps]_vars

-----------------------------------------------------------------------------
(* Properties of the service.                                              *)

StatusKeys == {"pending", "in_progress", "completed"}

Present(v) == v.t # "absent"

\* C1: every stored task's status is one of pending, in_progress, completed:
\* no request, whatever status value it carries, gets another value stored or
\* answered as the task's status.
C1_StoredStatusValid ==
  /\ \A i \in DOMAIN rows : rows[i].status \in VALID_STATUSES
  /\ (resp.op = "update" /\ resp.code = 200) =>
       resp.body.task.status \in VALID_STATUSES

\* C2: a PUT to an id that is not in the store is answered 404, whatever the
\* body holds (valid fields, invalid fields, or no field at all).
C2_UnknownIdNotFound ==
  \A id \in Ids \ DOMAIN rows, data \in UpdateBodies :
    update_task(rows, seq, clock, id, data).code = 404

\* C6: in every store state, the empty store included, the statistics give
\* total and the three per-status counts as integers, each per-status count
\* the number of stored tasks with that status.
C6_StatsCountsAreIntegers ==
  LET r == get_stats(rows, seq)
  IN /\ r.code = 200
     /\ r.body.stats.total.t = "int"
     /\ \A k \in StatusKeys :
          r.body.stats[k] =
            PyInt(Cardinality({i \in DOMAIN rows : rows[i].status = << k >>}))

\* C7: the statistics give total as the number of stored tasks, and
\* pending + in_progress + completed = total.
C7_StatsAddUp ==
  LET st == get_stats(rows, seq).body.stats
  IN /\ st.total = PyInt(Cardinality(DOMAIN rows))
     /\ \A k \in StatusKeys : st[k].t = "int"
     /\ st.pending.v + st.in_progress.v + st.completed.v = st.total.v

\* The create bodies whose title is a string that is not empty once trimmed.
TitledBodies ==
  { data \in CreateBodies :
      data.title.t = "str" /\ strip(data.title.v) # << >> }

\* C8: a create whose title is not empty once trimmed is answered 201 with a
\* pending task whose created_at equals its updated_at, whose title is the
\* trimmed title and whose id is the id of no task stored or created before.
C8_CreateYieldsFreshPendingTask ==
  \A data \in TitledBodies :
    LET r == create_task(rows, seq, clock, data)
    IN /\ r.code = 201
       /\ r.body.task.status = <<"pending">>
       /\ r.body.task.created_at = r.body.task.updated_at
       /\ r.body.task.title = strip(data.title.v)
       /\ r.body.task.id \notin DOMAIN rows \cup everIds

\* A task was created after an earlier task had been deleted.
C8_Witness ==
  /\ resp.op = "create" /\ resp.code = 201
  /\ resp.body.task.title = <<"a">>
  /\ everIds \ DOMAIN rows # {}

\* C9: a create whose title is absent, empty or blank is answered 400, and
\* neither the stored tasks nor the id sequence change.
C9_CreateWithoutTitleRejected ==
  \A data \in CreateBodies \ TitledBodies :
    LET r == create_task(rows, seq, clock, data)
    IN r.code = 400 /\ r.rows = rows /\ r.seq = seq

\* A create was refused while the store held a task.
C9_Witness ==
  /\ resp.op = "create" /\ resp.code = 400
  /\ resp.body.error = "Title is required"
  /\ DOMAIN rows # {}

\* The instant a stored timestamp denotes.
InstantOf(s) == s[1] * TicksPerSecond + (IF Len(s) > 1 THEN s[2] ELSE 0)

NewestFirst(ts) ==
  \A i \in 1 .. Len(ts) - 1 :
    InstantOf(ts[i].created_at) >= InstantOf(ts[i + 1].created_at)

Exactly(ts, want) ==
  /\ { ts[i] : i \in 1 .. Len(ts) } = want
  /\ Len(ts) = Cardinality(want)

\* C10: for each valid status s the list filtered by s holds exactly the
\* stored tasks whose status is s, newest created first, with count the
\* length of the list; the list without a filter holds every stored task in
\* the same order.
C10_ListExactAndNewestFirst ==
  /\ \A s \in VALID_STATUSES :
       LET r == get_tasks(rows, seq, PyStr(s))
       IN /\ r.code = 200
          /\ Exactly(r.body.tasks, { rows[i] : i \in { j \in DOMAIN rows : rows[j].status = s } })
          /\ r.body.count = Len(r.body.tasks)
          /\ NewestFirst(r.body.tasks)
  /\ LET r == get_tasks(rows, seq, PyNone)
     IN /\ r.code = 200
        /\ Exactly(r.body.tasks, { rows[i] : i \in DOMAIN rows })
        /\ r.body.count = Len(r.body.tasks)
        /\ NewestFirst(r.body.tasks)

\* A list of two tasks of one status, the later created one first.
C10_Witness ==
  /\ resp.op = "list" /\ resp.code = 200
  /\ Len(resp.body.tasks) = 2
  /\ resp.body.tasks[1].status = resp.body.tasks[2].status
  /\ resp.body.tasks[1].id > resp.body.tasks[2].id
  /\ InstantOf(resp.body.tasks[1].created_at) > InstantOf(resp.body.tasks[2].created_at)

\* The status filters a request can supply that are none of the three values.
BadFilters == { status \in StatusArgs \ {PyNone} : status.v \notin VALID_STATUSES }

\* C11: a list whose status filter is supplied and is none of pending,
\* in_progress, completed (the empty value included) is answered 400 and
\* carries no tasks.
C11_BadFilterRejected ==
  \A status \in BadFilters :
    LET r == get_tasks(rows, seq, status)
    IN r.code = 400 /\ "tasks" \notin DOMAIN r.body

UpdateFieldNames == {"title", "description", "status"}

\* C12: an update answered 200 changes, in the task it names, only
\* updated_at and the fields its body holds: a field the body does not hold
\* keeps its stored value, id and created_at stay, the id sequence stays, and
\* every other stored task stays as it was; a body holding only status
\* changes status and updated_at and nothing else.
C12_UpdateChangesOnlyGivenFields ==
  \A id \in DOMAIN rows, data \in UpdateBodies :
    LET r == update_task(rows, seq, clock, id, data)
    IN r.code = 200 =>
         /\ DOMAIN r.rows = DOMAIN rows
         /\ r.seq = seq
         /\ \A j \in DOMAIN rows \ {id} : r.rows[j] = rows[j]
         /\ r.rows[id].id = rows[id].id
         /\ r.rows[id].created_at = rows[id].created_at
         /\ \A f \in UpdateFieldNames :
              ~Present(data[f]) => r.rows[id][f] = rows[id][f]
         /\ (~Present(data.title) /\ ~Present(data.description)) =>
              r.rows[id] = [rows[id] EXCEPT !.status = r.rows[id].status,
                                            !.updated_at = r.rows[id].updated_at]
         /\ r.body.task = r.rows[id]

\* An update moved a task with a description to completed at a later clock
\* reading, next to another stored task.
C12_Witness ==
  /\ resp.op = "update" /\ resp.code = 200
  /\ resp.body.task.status = <<"completed">>
  /\ resp.body.task.description = PyStr(<<"d">>)
  /\ resp.body.task.title = <<"a">>
  /\ resp.body.task.updated_at # resp.body.task.created_at
  /\ Cardinality(DOMAIN rows) = 2

\* The body holds a status that is none of the three values, or a title that
\* is empty once trimmed.
HasInvalidField(data) ==
  \/ Present(data.status) /\ ~(data.status.t = "str" /\ data.status.v \in VALID_STATUSES)
  \/ data.title.t = "str" /\ strip(data.title.v) = << >>

\* C13: an update of a stored task whose body holds an invalid field, next to
\* whatever valid fields, is answered 400 and leaves every stored task,
\* updated_at included, as it was.
C13_InvalidUpdateChangesNothing ==
  \A id \in DOMAIN rows, data \in UpdateBodies :
    HasInvalidField(data) =>
      LET r == update_task(rows, seq, clock, id, data)
      IN r.code = 400 /\ r.rows = rows

\* C14: an update of a stored task whose body holds no invalid field is
\* answered 200 and leaves the task's updated_at at the time of the request,
\* whichever of title, description and status the body holds, none included.
C14_ValidUpdateRefreshesUpdatedAt ==
  \A id \in DOMAIN rows, data \in UpdateBodies :
    ~HasInvalidField(data) =>
      LET r == update_task(rows, seq, clock, id, data)
      IN /\ r.code = 200
         /\ r.rows[id].updated_at = isoformat(clock)

\* C15: an id that was handed out and is no longer stored is unknown to every
\* later get, update and delete, whatever was created in between.
C15_DeletedIdStaysUnknown ==
  \A id \in everIds \ DOMAIN rows :
    /\ get_task(rows, seq, id).code = 404
    /\ delete_task(rows, seq, id).code = 404
    /\ \A data \in UpdateBodies : update_task(rows, seq, clock, id, data).code = 404

\* C16: every stored task carries its own id, and the id a create assigns is
\* greater than every id assigned before it, those of deleted tasks included.
C16_IdsNeverReused ==
  /\ \A i \in DOMAIN rows : rows[i].id = i
  /\ \A data \in TitledBodies :
       LET r == create_task(rows, seq, clock, data)
       IN /\ r.code = 201
          /\ \A i \in everIds \cup DOMAIN rows : r.body.task.id > i
          /\ DOMAIN r.rows = DOMAIN rows \cup {r.body.task.id}

\* The second task was created after the first had been deleted, and got id 2.
C16_Witness ==
  /\ resp.op = "create" /\ resp.code = 201
  /\ resp.body.task.id = 2
  /\ DOMAIN rows = {2}
  /\ everIds = {1, 2}

\* A title at rest: not empty, no blank at either end.
Trimmed(title) ==
  /\ title # << >>
  /\ ~IsBlank(title[1])
  /\ ~IsBlank(title[Len(title)])

\* C17: every stored title is non-empty and has no blank at either end, and
\* no create or update, whatever title it carries, stores another kind.
C17_StoredTitleTrimmed ==
  /\ \A i \in DOMAIN rows : Trimmed(rows[i].title)
  /\ \A data \in CreateBodies :
       LET r == create_task(rows, seq, clock, data)
       IN \A i \in DOMAIN r.rows : Trimmed(r.rows[i].title)
  /\ \A id \in Ids, data \in UpdateBodies :
       LET r == update_task(rows, seq, clock, id, data)
       IN \A i \in DOMAIN r.rows : Trimmed(r.rows[i].title)

\* An update that would have blanked a stored title was refused.
C17_Witness ==
  /\ resp.op = "update" /\ resp.code = 400
  /\ resp.body.error = "Title cannot be empty"
  /\ \E i \in DOMAIN rows : rows[i].title = <<"a">>

\* C18: every stored task has updated_at at or after created_at (as instants
\* and as the texts the store compares), and an update answered 200 at a clock
\* reading later than the task's updated_at leaves updated_at later than it
\* was and created_at as it was.
C18_UpdatedAtNeverBeforeCreatedAt ==
  /\ \A i \in DOMAIN rows :
       /\ InstantOf(rows[i].updated_at) >= InstantOf(rows[i].created_at)
       /\ ~TextLess(rows[i].updated_at, rows[i].created_at)
  /\ \A id \in DOMAIN rows, data \in UpdateBodies :
       LET r == update_task(rows, seq, clock, id, data)
       IN (r.code = 200 /\ clock > InstantOf(rows[id].updated_at)) =>
            /\ InstantOf(r.rows[id].updated_at) > InstantOf(rows[id].updated_at)
            /\ TextLess(rows[id].updated_at, r.rows[id].updated_at)
            /\ r.rows[id].created_at = rows[id].created_at

\* A task was updated at a later clock reading than it was created at.
C18_Witness ==
  /\ resp.op = "update" /\ resp.code = 200
  /\ InstantOf(resp.body.task.updated_at) > InstantOf(resp.body.task.created_at)
  /\ rows[resp.body.task.id] = resp.body.task

\* C19: every stored task's description is a string, never null.
C19_StoredDescriptionIsString ==
  \A i \in DOMAIN rows : rows[i].description.t = "str"

\* C22: every response carries a boolean success field, true exactly when
\* the status code is 2xx, on every endpoint, /health and /api/v1/version
\* included.
C22_EveryResponseHasSuccess ==
  resp.op # "none" =>
    /\ "success" \in DOMAIN resp.body
    /\ resp.body.success \in BOOLEAN
    /\ resp.body.success = (resp.code \in 200 .. 299)

-----------------------------------------------------------------------------
(* Properties of the service under concurrent requests.                    *)

\* C24: a Delete answered 200 is one whose own statement removed the row, so
\* of two Deletes of one id at most one is answered 200 (the other 404).
C24_DeleteIsAtomic ==
  /\ \A w \in Workers :
       (wresp[w].op = "delete" /\ wresp[w].code = 200) => wresp[w].wrote
  /\ \A a, b \in Workers :
       (/\ a # b
        /\ wresp[a].op = "delete" /\ wresp[b].op = "delete"
        /\ wresp[a].id = wresp[b].id) =>
         ~(wresp[a].code = 200 /\ wresp[b].code = 200)

\* C25: when no request is being served, every connection a request opened
\* has been closed.
C25_ConnectionsReleased ==
  (\A w \in Workers : wpc[w] = "idle") => openConns = 0

\* C27: a Get, List or Stats request, and a request answered 400, 404 or 500,
\* has changed no stored row.
C27_OnlySuccessfulWritesChangeStore ==
  \A w \in Workers :
    (\/ wresp[w].op \in {"get", "list", "stats"}
     \/ wresp[w].code \in {400, 404, 500}) =>
      ~wresp[w].wrote

\* C28: a Create whose row was inserted and committed is answered 201.
C28_PersistedCreateAnswered201 ==
  \A w \in Workers :
    (wresp[w].op = "create" /\ wresp[w].wrote) => wresp[w].code = 201

-----------------------------------------------------------------------------
(* Properties of the client.                                               *)

\* A version's components, padded with zeros to n of them.
Padded(v, n) == [i \in 1 .. n |-> IF i <= Len(IntParts(v)) THEN IntParts(v)[i] ELSE 0]

\* a is the lower version: at the first component where they differ, a's is
\* the smaller.
Lower(a, b) ==
  LET n == IF Len(IntParts(a)) >= Len(IntParts(b))
             THEN Len(IntParts(a)) ELSE Len(IntParts(b))
  IN \E i \in 1 .. n :
       /\ Padded(a, n)[i] < Padded(b, n)[i]
       /\ \A j \in 1 .. i - 1 : Padded(a, n)[j] = Padded(b, n)[j]

RequestsOf(kind) == { i \in 1 .. Len(sent) : sent[i] = kind }

\* C3: a run that builds a client asks for the version exactly once, before
\* any other request; a data request is sent only after the version request
\* was answered with success and the gate let the run go on; a connection
\* error or timeout on the version request ends the run with exit code 1 and
\* no data request.
C3_VersionCheckOnceAndFirst ==
  /\ (pc # "start" /\ ~NoFieldGiven(cmd)) =>
       (RequestsOf("version") = {1})
  /\ (sent # << >>) => sent[1] = "version"
  /\ (\E i \in 1 .. Len(sent) : sent[i] # "version") =>
       /\ gate.kind = "http" /\ gate.code < 400
       /\ Len(sent) = 2
  /\ gate.kind \in {"ConnectionError", "Timeout"} =>
       (pc = "exited" /\ exitCode = 1 /\ sent = << "version" >>)

\* A run whose version request met a connection error.
C3_Witness ==
  /\ gate.kind = "ConnectionError"
  /\ pc = "exited"
  /\ sent = << "version" >>

\* The service sent both versions, each of numeric components.
DescriptorComplete ==
  /\ gate.kind = "http" /\ gate.code < 400
  /\ Present(gate.json.version) /\ PartsParse(gate.json.version.v)
  /\ Present(gate.json.min_cli_version) /\ PartsParse(gate.json.min_cli_version.v)

AbortedAtGate == pc = "exited" /\ exitCode = 1 /\ sent = << "version" >>

Ordering(a, b) == IF Lower(a, b) THEN -1 ELSE IF Lower(b, a) THEN 1 ELSE 0

\* C5: _compare_versions(v1, v2) is -1, 0 or 1 as v1 is lower than, equal to
\* or higher than v2, component by component as integers with missing
\* components read as 0, and it is the negation of _compare_versions(v2, v1).
C5_CompareIsComponentOrder ==
  cmp # NoCompare =>
    /\ cmp.exc = "none"
    /\ cmp.v = Ordering(v1, v2)
    /\ cmp.v = 0 - compare_versions(v2, v1).v

\* "1.1" compared with "1.10": 1 against 10 as integers.
C5_Witness ==
  /\ v1 = << "1", ".", "1" >>
  /\ v2 = << "1", ".", "1", "0" >>
  /\ cmp = [exc |-> "none", v |-> -1]

\* The exception types _handle_response raises for a 404, for a 400 and for
\* any other failure.
NotFoundKind == handle_response(404).exc
ValidationKind == handle_response(400).exc
GenericKind == handle_response(500).exc

\* C20: the data call of a run ends in exactly one outcome; a 404 ends in an
\* error kind that is neither the kind of a 400 nor the generic kind, a 400
\* in a kind that is neither the kind of a 404 nor the generic kind, and
\* every other failure in the generic kind.
C20_ErrorKindsDistinguishable ==
  (pc = "exited" /\ answer.kind = "http") =>
    /\ answer.code < 400 => outcome.exc = "none"
    /\ answer.code = 404 =>
         outcome.exc # "none" /\ outcome.exc \notin {ValidationKind, GenericKind}
    /\ answer.code = 400 =>
         outcome.exc # "none" /\ outcome.exc \notin {NotFoundKind, GenericKind}
    /\ (answer.code >= 400 /\ answer.code \notin {400, 404}) =>
         outcome.exc = GenericKind

\* The version reply is in: the gate has run.
GateRan == gate.kind # "none"

\* C21: a run against a service that reports a version at or above
\* MAX_API_VERSION (2.0.0) ends at the gate with exit code 1 and sends no
\* data request.
C21_GateRefusesTooNewService ==
  (DescriptorComplete /\ ~Lower(gate.json.version.v, MAX_API_VERSION)) =>
    AbortedAtGate

\* C23: the update command given none of --title, --description, --status
\* ends with exit code 1 and the message that at least one field must be
\* specified, and sends nothing: no version request, no update request.
C23_UpdateWithoutFieldsSendsNothing ==
  (cmd.name = "update" /\ cmd.fields = "none") =>
    /\ pc = "exited"
    /\ exitCode = 1
    /\ printed = "at least one field"
    /\ sent = << >>
    /\ gate = NoReply /\ answer = NoAnswer

\* The update command was run without a field.
C23_Witness ==
  /\ cmd = [name |-> "update", fields |-> "none"]
  /\ pc = "exited"
  /\ exitCode = 1
  /\ sent = << >>

\* The commands that name a task.
TaskCommands == {"show", "complete", "update", "delete"}

\* C26: show, complete, update and delete print "not found" only when the
\* service answered 404; an answer of 400 is not reported as not found.
C26_NotFoundOnlyOn404 ==
  (pc = "exited" /\ answer.kind = "http" /\ cmd.name \in TaskCommands) =>
    /\ printed = "not found" => answer.code = 404
    /\ answer.code = 400 => printed # "not found"

\* C29: a run whose version request was answered with a failure status, or
\* with a descriptor that lacks version or min_cli_version or holds a
\* component that is no number, ends at the gate with exit code 1 and sends
\* no data request.
C29_GateFailsClosed ==
  (GateRan /\ ~DescriptorComplete) => AbortedAtGate

====
